---- MODULE Spec2Model ----
(***************************************************************************)
(* Model of the proportional allocation engine of                          *)
(* SPP_Ingredients_Allocation_App.py: calculate_proportion and             *)
(* allocate_quantity, applied to a transaction table as produced by        *)
(* load_all_data_from_google_sheet.                                        *)
(*                                                                         *)
(* Conventions.                                                            *)
(*  - A Python str is a sequence of one-character strings, so that         *)
(*    str.lower and str.contains are computed character by character.      *)
(*    The identifiers used contain no regular-expression metacharacter,    *)
(*    for which str.contains(regex=True) is substring search.              *)
(*  - A Python float is an exact rational [n, d] in lowest terms, d > 0.   *)
(*    Sums, products and quotients are exact; rounding to an integer is    *)
(*    numpy's round-half-to-even.                                          *)
(*  - A DataFrame-or-None is a record [isNone, rows]; rows is the sequence *)
(*    of the frame's rows in frame order, each row carrying its index      *)
(*    label in the field idx where the code depends on labels.             *)
(***************************************************************************)
EXTENDS Integers, Sequences, FiniteSets, TLC

(* ------------------------------ bounds -------------------------------- *)

\* largest number of rows of a transaction table
MaxRows == 3

\* largest available_quantity, in whole units
MaxQty == 4

(* ------------------------- exact rational numbers --------------------- *)

Abs(x) == IF x < 0 THEN -x ELSE x

RECURSIVE GCD(_, _)
GCD(a, b) == IF b = 0 THEN a ELSE GCD(b, a % b)

Rat(n, d) ==
    LET s == IF d < 0 THEN -1 ELSE 1
        g == GCD(Abs(n), Abs(d))
    IN  [n |-> (s * n) \div g, d |-> (s * d) \div g]

RatInt(k) == [n |-> k, d |-> 1]

RatAdd(x, y) == Rat(x.n * y.d + y.n * x.d, x.d * y.d)

RatSub(x, y) == Rat(x.n * y.d - y.n * x.d, x.d * y.d)

RatMul(x, y) == Rat(x.n * y.n, x.d * y.d)

RatDiv(x, y) == Rat(x.n * y.d, x.d * y.n)

RatLt(x, y) == x.n * y.d < y.n * x.d

RatGe(x, y) == x.n * y.d >= y.n * x.d

RatGt(x, y) == x.n * y.d > y.n * x.d

RatFloor(x) == x.n \div x.d

\* numpy.round / Python round on a float: nearest integer, ties to even
RatRound(x) ==
    LET f  == RatFloor(x)
        r2 == 2 * (x.n - f * x.d)
    IN  IF r2 < x.d THEN f
        ELSE IF r2 > x.d THEN f + 1
        ELSE IF f % 2 = 0 THEN f ELSE f + 1

\* Python int(float): truncation toward zero
RatTrunc(x) == IF x.n >= 0 THEN x.n \div x.d ELSE -((-x.n) \div x.d)

RECURSIVE SumInt(_)
SumInt(s) == IF s = <<>> THEN 0 ELSE Head(s) + SumInt(Tail(s))

RECURSIVE SumRat(_)
SumRat(s) == IF s = <<>> THEN RatInt(0) ELSE RatAdd(Head(s), SumRat(Tail(s)))

(* ------------------------------- strings ------------------------------ *)

LowerChar(c) ==
    CASE c = "A" -> "a"
      [] c = "B" -> "b"
      [] OTHER   -> c

\* str.lower()
Lower(s) == [i \in 1..Len(s) |-> LowerChar(s[i])]

\* substring search: pat occurs in s
Contains(s, pat) ==
    \E i \in 1..(Len(s) - Len(pat) + 1) : SubSeq(s, i, i + Len(pat) - 1) = pat

(* --------------------------- frames and None -------------------------- *)

None == "None"

NoFrame == [isNone |-> TRUE, rows |-> <<>>]

Frame(rows) == [isNone |-> FALSE, rows |-> rows]

\* DataFrame.empty
IsEmpty(f) == f.rows = <<>>

SeqsUpTo(S, n) == UNION {[1..k -> S] : k \in 0..n}

(* ------------------------- the transaction table ---------------------- *)

\* DEPARTMENT values, in the lexicographic order in which groupby sorts keys
DepartmentsSorted == <<"A", "B", "C", "D">>

\* the departments of the tables built row by row
Departments == {DepartmentsSorted[i] : i \in 1..3}

AllProductionAreas == "All Production Areas"

\* the department argument: default None, the sentinel, or a department
DepartmentArgs == {None, AllProductionAreas, "A", "B"}

\* items of the sheet: ITEM_NAME with its ITEM_SERIAL
Salt == [ITEM_NAME |-> <<"A", "b">>, ITEM_SERIAL |-> <<"7">>]

Brine == [ITEM_NAME |-> <<"b", " ", "7">>, ITEM_SERIAL |-> <<"1", "2">>]

\* rows kept by load_all_data_from_google_sheet: QUANTITY > 0
TransactionRows(items, quantities) ==
    {[ITEM_NAME |-> it.ITEM_NAME, ITEM_SERIAL |-> it.ITEM_SERIAL,
      DEPARTMENT |-> d, QUANTITY |-> q] :
        it \in items, d \in Departments, q \in {x \in quantities : x > 0}}

\* the value returned by load_all_data_from_google_sheet: a frame or None
Tables(items, quantities) ==
    {NoFrame} \cup
    {Frame(rows) : rows \in SeqsUpTo(TransactionRows(items, quantities), MaxRows)}

(* --------------------------- calculate_proportion --------------------- *)

\* df["ITEM_NAME"].str.lower().str.contains(identifier.lower(), na=False)
MatchesIdentifier(row, identifier) ==
    Contains(Lower(row.ITEM_NAME), Lower(identifier))

FilterByIdentifier(rows, identifier) ==
    LET keep(r) == MatchesIdentifier(r, identifier)
    IN  SelectSeq(rows, keep)

\* variant: the sentinel is taken for a department name
DepartmentGiven_NoSentinel(department) ==
    /\ department # None
    /\ department # ""

\* if department and department != "All Production Areas"
DepartmentGiven(department) ==
    /\ department # None
    /\ department # ""
    /\ department # AllProductionAreas

\* variant: the filtered frame is not kept
FilterByDepartment_Unfiltered(rows, department) == rows

FilterByDepartment(rows, department) ==
    LET keep(r) == r.DEPARTMENT = department
    IN  SelectSeq(rows, keep)

\* filtered_df.groupby("DEPARTMENT")["QUANTITY"].sum().reset_index()
GroupByDepartment(rows) ==
    LET present(d) == \E i \in 1..Len(rows) : rows[i].DEPARTMENT = d
        keys == SelectSeq(DepartmentsSorted, present)
        qty(d) == SumInt([i \in 1..Len(rows) |->
                            IF rows[i].DEPARTMENT = d THEN rows[i].QUANTITY ELSE 0])
    IN  [i \in 1..Len(keys) |->
            [idx |-> i - 1, DEPARTMENT |-> keys[i], QUANTITY |-> qty(keys[i])]]

\* dept_usage["QUANTITY"].sum()
TotalUsage(dept_usage) ==
    SumInt([i \in 1..Len(dept_usage) |-> dept_usage[i].QUANTITY])

\* dept_usage["PROPORTION"] = (dept_usage["QUANTITY"] / total_usage) * 100
WithProportion(dept_usage, total_usage) ==
    [i \in 1..Len(dept_usage) |->
        [idx |-> dept_usage[i].idx,
         DEPARTMENT |-> dept_usage[i].DEPARTMENT,
         QUANTITY |-> dept_usage[i].QUANTITY,
         PROPORTION |-> RatMul(Rat(dept_usage[i].QUANTITY, total_usage), RatInt(100))]]

\* variant: the last row instead of the row of the maximum
IdxMax_Last(dept_usage) == Len(dept_usage)

\* dept_usage["PROPORTION"].idxmax(): position of the first maximum
IdxMax(dept_usage) ==
    CHOOSE i \in 1..Len(dept_usage) :
        /\ \A j \in 1..Len(dept_usage) :
              RatGe(dept_usage[i].PROPORTION, dept_usage[j].PROPORTION)
        /\ \A j \in 1..(i - 1) :
              RatLt(dept_usage[j].PROPORTION, dept_usage[i].PROPORTION)

\* variant: strict comparison with the threshold
AboveMinimum_Strict(dept_usage, min_proportion) ==
    LET keep(r) == RatGt(r.PROPORTION, RatInt(min_proportion))
    IN  SelectSeq(dept_usage, keep)

\* dept_usage[dept_usage["PROPORTION"] >= min_proportion]
AboveMinimum(dept_usage, min_proportion) ==
    LET keep(r) == RatGe(r.PROPORTION, RatInt(min_proportion))
    IN  SelectSeq(dept_usage, keep)

\* variant: the fallback keeps every department
Significant_KeepAll(dept_usage, min_proportion) ==
    LET significant == AboveMinimum(dept_usage, min_proportion)
    IN  IF significant = <<>> /\ dept_usage # <<>>
        THEN dept_usage
        ELSE significant

\* the significance filter with its fallback to the largest department
Significant(dept_usage, min_proportion) ==
    LET significant == AboveMinimum(dept_usage, min_proportion)
    IN  IF significant = <<>> /\ dept_usage # <<>>
        THEN <<dept_usage[IdxMax(dept_usage)]>>
        ELSE significant

\* significant["PROPORTION"].sum()
TotalProp(significant) ==
    SumRat([i \in 1..Len(significant) |-> significant[i].PROPORTION])

\* variant: the kept shares are not rescaled
Normalize_Skipped(significant) == significant

\* significant["PROPORTION"] = (significant["PROPORTION"] / total_prop) * 100
Normalize(significant) ==
    LET total_prop == TotalProp(significant)
    IN  IF RatGt(total_prop, RatInt(0))
        THEN [i \in 1..Len(significant) |->
                [significant[i] EXCEPT
                    !.PROPORTION = RatMul(RatDiv(@, total_prop), RatInt(100))]]
        ELSE significant

\* significant.sort_values("PROPORTION", ascending=False): the default
\* kind is quicksort, which is not stable, so rows with equal PROPORTION
\* may come out in any order; every descending arrangement is an outcome
SortValuesDescending(significant) ==
    LET n == Len(significant)
        descending(p) ==
            \A i \in 1..n : \A j \in i..n :
                RatGe(significant[p[i]].PROPORTION, significant[p[j]].PROPORTION)
    IN  {[i \in 1..n |-> significant[p[i]]] :
            p \in {q \in Permutations(1..n) : descending(q)}}

\* the frames calculate_proportion can return
calculate_proportion(df, identifier, department, min_proportion) ==
    IF df.isNone \/ IsEmpty(df) THEN {NoFrame}
    ELSE LET by_item == FilterByIdentifier(df.rows, identifier)
         IN  IF by_item = <<>> THEN {NoFrame}
             ELSE LET filtered_df ==
                          IF DepartmentGiven(department)
                          THEN FilterByDepartment(by_item, department)
                          ELSE by_item
                  IN  IF filtered_df = <<>> THEN {NoFrame}
                      ELSE LET dept_usage == GroupByDepartment(filtered_df)
                               total_usage == TotalUsage(dept_usage)
                           IN  IF dept_usage = <<>> \/ total_usage <= 0
                               THEN {NoFrame}
                               ELSE {Frame(s) : s \in SortValuesDescending(
                                        Normalize(Significant(
                                            WithProportion(dept_usage, total_usage),
                                            min_proportion)))}

(* ----------------------------- allocate_quantity ---------------------- *)

\* variant: the share is used as a fraction without dividing by 100
Ideal_NoPercent(row, available_quantity) ==
    RatMul(row.PROPORTION, available_quantity)

\* (proportions["PROPORTION"] / 100) * available_quantity
Ideal(row, available_quantity) ==
    RatMul(RatDiv(row.PROPORTION, RatInt(100)), available_quantity)

\* proportions["ALLOCATED_QUANTITY"].round().astype(int)
RoundedAllocation(rows, available_quantity) ==
    [i \in 1..Len(rows) |-> RatRound(Ideal(rows[i], available_quantity))]

\* variant: the operands of the subtraction exchanged
Difference_Swapped(available_quantity, allocated_sum) ==
    RatTrunc(RatSub(RatInt(allocated_sum), available_quantity))

\* difference = int(available_quantity - allocated_sum)
Difference(available_quantity, allocated_sum) ==
    RatTrunc(RatSub(available_quantity, RatInt(allocated_sum)))

\* variant: the smallest values are taken
NLargest_Smallest(values, n) ==
    {i \in 1..Len(values) :
        Cardinality({j \in 1..Len(values) :
            \/ RatLt(values[j], values[i])
            \/ values[j] = values[i] /\ j < i}) < n}

\* Series.nlargest(n), keep="first": the positions of the n largest values,
\* the earlier position winning among equal values
NLargest(values, n) ==
    {i \in 1..Len(values) :
        Cardinality({j \in 1..Len(values) :
            \/ RatGt(values[j], values[i])
            \/ values[j] = values[i] /\ j < i}) < n}

\* Series.nsmallest(n), keep="first"
NSmallest(values, n) ==
    {i \in 1..Len(values) :
        Cardinality({j \in 1..Len(values) :
            \/ RatLt(values[j], values[i])
            \/ values[j] = values[i] /\ j < i}) < n}

\* variant: units are added when short, never taken back when over
Adjusted_AddOnly(rows, rounded, available_quantity, difference) ==
    IF difference > 0
    THEN LET fractional == [i \in 1..Len(rows) |->
                 RatSub(Ideal(rows[i], available_quantity), RatInt(rounded[i]))]
             indices == NLargest(fractional, difference)
         IN  [i \in 1..Len(rows) |->
                 IF i \in indices THEN rounded[i] + 1 ELSE rounded[i]]
    ELSE rounded

\* the adjustment of the rounded allocations by single units
Adjusted(rows, rounded, available_quantity, difference) ==
    IF difference > 0
    THEN LET fractional == [i \in 1..Len(rows) |->
                 RatSub(Ideal(rows[i], available_quantity), RatInt(rounded[i]))]
             indices == NLargest(fractional, difference)
         IN  [i \in 1..Len(rows) |->
                 IF i \in indices THEN rounded[i] + 1 ELSE rounded[i]]
    ELSE IF difference < 0
    THEN LET fractional == [i \in 1..Len(rows) |->
                 RatSub(Ideal(rows[i], available_quantity), RatInt(rounded[i] - 1))]
             indices == NSmallest(fractional, -difference)
         IN  [i \in 1..Len(rows) |->
                 IF i \in indices THEN rounded[i] - 1 ELSE rounded[i]]
    ELSE rounded

\* the body of allocate_quantity on the frame calculate_proportion returned
Allocation(proportions, available_quantity) ==
    IF proportions.isNone THEN NoFrame
    ELSE LET rows == proportions.rows
             rounded == RoundedAllocation(rows, available_quantity)
             difference == Difference(available_quantity, SumInt(rounded))
             final == Adjusted(rows, rounded, available_quantity, difference)
         IN  Frame([i \in 1..Len(rows) |->
                 [idx |-> rows[i].idx,
                  DEPARTMENT |-> rows[i].DEPARTMENT,
                  QUANTITY |-> rows[i].QUANTITY,
                  PROPORTION |-> rows[i].PROPORTION,
                  ALLOCATED_QUANTITY |-> final[i]]])

\* the frames allocate_quantity can return
allocate_quantity(df, identifier, available_quantity, department) ==
    {Allocation(proportions, available_quantity) :
        proportions \in calculate_proportion(df, identifier, department, 1)}

(* ------------------------------ frame storage ------------------------- *)

\* the frame whose storage a frame of a call shares: df[mask] builds a new
\* frame, as do groupby(...).sum().reset_index(), .copy(), pd.DataFrame(...)
\* and sort_values, so that no frame of a call shares the storage of df
StorageOf(frame) ==
    CASE frame = "df"          -> "df"
      [] frame = "filtered_df" -> "filtered_df"
      [] frame = "dept_usage"  -> "dept_usage"
      [] frame = "significant" -> "significant"
      [] frame = "proportions" -> "proportions"

\* variant: the PROPORTION column is also assigned on the table passed in
AssignedFrames_Input(f, reached) ==
    IF ~reached THEN {}
    ELSE IF f = "calculate_proportion"
    THEN {"df", "dept_usage", "significant"}
    ELSE {"df", "dept_usage", "significant", "proportions"}

\* the frames a call assigns a column or a cell of, once past the returns
\* of None: dept_usage and significant in calculate_proportion, and
\* proportions in allocate_quantity
AssignedFrames(f, reached) ==
    IF ~reached THEN {}
    ELSE IF f = "calculate_proportion"
    THEN {"dept_usage", "significant"}
    ELSE {"dept_usage", "significant", "proportions"}

\* a frame with a column assigned
WithColumn(frame, column) ==
    IF frame.isNone THEN frame
    ELSE Frame([i \in 1..Len(frame.rows) |->
                  [k \in DOMAIN frame.rows[i] \cup {column} |->
                      IF k \in DOMAIN frame.rows[i]
                      THEN frame.rows[i][k] ELSE RatInt(0)]])

\* the table of the caller after a call
CallerTableAfter(table, f, reached) ==
    IF \E frame \in AssignedFrames(f, reached) : StorageOf(frame) = "df"
    THEN WithColumn(table, "PROPORTION")
    ELSE table

(* ------------------------------ the program --------------------------- *)

VARIABLES
    df,                  \* the transaction table handed to the engine
    call,                \* the function last called, "none" before a call
    identifier,          \* arguments of the call
    department,
    min_proportion,
    available_quantity,
    result               \* the frame or None the call returned

vars == <<df, call, identifier, department, min_proportion,
          available_quantity, result>>

Idle ==
    /\ call = "none"
    /\ identifier = <<>>
    /\ department = None
    /\ min_proportion = 1
    /\ available_quantity = RatInt(0)
    /\ result = NoFrame

CalculateProportion(id, dept, min_prop) ==
    /\ call = "none"
    /\ call' = "calculate_proportion"
    /\ identifier' = id
    /\ department' = dept
    /\ min_proportion' = min_prop
    /\ available_quantity' = RatInt(0)
    /\ result' \in calculate_proportion(df, id, dept, min_prop)
    /\ df' = CallerTableAfter(df, "calculate_proportion", ~result'.isNone)

AllocateQuantity(id, qty, dept) ==
    /\ call = "none"
    /\ call' = "allocate_quantity"
    /\ identifier' = id
    /\ department' = dept
    /\ min_proportion' = 1
    /\ available_quantity' = qty
    /\ result' \in allocate_quantity(df, id, qty, dept)
    /\ df' = CallerTableAfter(df, "allocate_quantity", ~result'.isNone)

\* the script runs again on the next interaction, with the same table
Rerun ==
    /\ call # "none"
    /\ call' = "none"
    /\ identifier' = <<>>
    /\ department' = None
    /\ min_proportion' = 1
    /\ available_quantity' = RatInt(0)
    /\ result' = NoFrame
    /\ UNCHANGED df

(* inputs of the allocation runs: one item, varied quantities *)

Quantities == {1, 2, 197}

Identifiers == {<<"A", "B">>}

FilterArgs == {None, "B"}

MinProportions == {1, 50, 101}

\* available_quantity in tenths, as entered with step 0.1
QuantityTenths ==
    {t \in (-10)..(10 * MaxQty) : t % 5 = 0 \/ t = 6}

AvailableQuantities == {Rat(t, 10) : t \in QuantityTenths}

Init ==
    /\ df \in Tables({Salt}, Quantities)
    /\ Idle

Next ==
    \/ \E id \in Identifiers, dept \in FilterArgs, m \in MinProportions :
          CalculateProportion(id, dept, m)
    \/ \E id \in Identifiers, qty \in AvailableQuantities, dept \in FilterArgs :
          AllocateQuantity(id, qty, dept)
    \/ Rerun

Spec == Init /\ [][Next]_vars

(* inputs of the lookup runs: two items, varied identifiers and filters *)

LookupIdentifiers ==
    {<<>>, <<" ">>, <<"b">>, <<"a", "B">>, <<"7">>, <<"1", "2">>, <<"z">>}

LookupQuantities == {RatInt(0), RatInt(2)}

InitLookup ==
    /\ df \in Tables({Salt, Brine}, {1})
    /\ Idle

NextLookup ==
    \/ \E id \in LookupIdentifiers, dept \in DepartmentArgs :
          CalculateProportion(id, dept, 1)
    \/ \E id \in LookupIdentifiers, qty \in LookupQuantities, dept \in DepartmentArgs :
          AllocateQuantity(id, qty, dept)
    \/ Rerun

SpecLookup == InitLookup /\ [][NextLookup]_vars

(* inputs of the runs over many departments: one row for each department *)

WideQuantities == {1, 2, 3}

WideTables ==
    {Frame([i \in 1..Len(DepartmentsSorted) |->
              [ITEM_NAME |-> Salt.ITEM_NAME, ITEM_SERIAL |-> Salt.ITEM_SERIAL,
               DEPARTMENT |-> DepartmentsSorted[i], QUANTITY |-> q[i]]]) :
        q \in [1..Len(DepartmentsSorted) -> WideQuantities]}

InitWide ==
    /\ df \in WideTables
    /\ Idle

NextWide ==
    \/ \E id \in Identifiers, m \in MinProportions :
          CalculateProportion(id, None, m)
    \/ \E id \in Identifiers, qty \in AvailableQuantities :
          AllocateQuantity(id, qty, None)
    \/ Rerun

SpecWide == InitWide /\ [][NextWide]_vars

TypeOK ==
    /\ call \in {"none", "calculate_proportion", "allocate_quantity"}
    /\ df.isNone \in BOOLEAN
    /\ result.isNone \in BOOLEAN

(* ------------------------------ properties ---------------------------- *)

Called(f) == call = f

Returned == call # "none" /\ ~result.isNone

\* the rows of a table that match an identifier by name and pass the filter
Selected(rows, id, dept) ==
    LET keep(r) ==
            /\ Contains(Lower(r.ITEM_NAME), Lower(id))
            /\ dept \in {None, "", AllProductionAreas} \/ r.DEPARTMENT = dept
    IN  SelectSeq(rows, keep)

\* the raw shares of the departments for the arguments of the call
RawUsage ==
    LET sel == Selected(df.rows, identifier, department)
        grouped == GroupByDepartment(sel)
    IN  IF sel = <<>> THEN <<>> ELSE WithProportion(grouped, TotalUsage(grouped))

ShareIn(raw, d) ==
    LET i == CHOOSE j \in 1..Len(raw) : raw[j].DEPARTMENT = d
    IN  raw[i].PROPORTION

DepartmentsOf(rows) == {rows[i].DEPARTMENT : i \in 1..Len(rows)}

AllocatedSum == SumInt([i \in 1..Len(result.rows) |-> result.rows[i].ALLOCATED_QUANTITY])

WholeQuantity == available_quantity.d = 1 /\ available_quantity.n >= 0

\* C1: for a non-negative integer available_quantity, the ALLOCATED_QUANTITY
\* values of the table returned by allocate_quantity sum to exactly that
\* quantity, whatever the number of departments kept.
C1_AllocationSum ==
    (Called("allocate_quantity") /\ Returned /\ WholeQuantity)
        => AllocatedSum = available_quantity.n

\* a table of several departments whose rounded allocations had to be adjusted
C1_Witness ==
    /\ Called("allocate_quantity") /\ Returned /\ WholeQuantity
    /\ Len(result.rows) >= 2
    /\ SumInt(RoundedAllocation(result.rows, available_quantity)) > available_quantity.n

\* C2: for every positive available_quantity, fractional ones included, the
\* allocations sum to available_quantity rounded to the nearest integer.
C2_FractionalSum ==
    (Called("allocate_quantity") /\ Returned /\ available_quantity.n > 0)
        => AllocatedSum = RatRound(available_quantity)

\* C3: with available_quantity zero or negative, allocate_quantity returns None.
C3_NonPositiveQuantity ==
    (Called("allocate_quantity") /\ available_quantity.n <= 0) => result.isNone

\* C4: whenever calculate_proportion returns a distribution, its PROPORTION
\* values sum to 100.
C4_ShareSum ==
    (Called("calculate_proportion") /\ Returned)
        => TotalProp(result.rows) = RatInt(100)

\* several departments kept and at least one dropped, so that the kept raw
\* shares do not sum to 100 before they are rescaled
C4_Witness ==
    /\ Called("calculate_proportion") /\ Returned
    /\ Len(result.rows) >= 2
    /\ Len(result.rows) < Len(RawUsage)

IsBlank(id) == \A i \in 1..Len(id) : id[i] = " "

\* C6: with an empty or blank identifier, calculate_proportion and
\* allocate_quantity return None.
C6_BlankIdentifier ==
    (call # "none" /\ IsBlank(identifier)) => result.isNone

Digits == {"1", "2", "7"}

\* str.isdigit()
IsDigits(id) == Len(id) > 0 /\ \A i \in 1..Len(id) : id[i] \in Digits

\* the rows whose ITEM_SERIAL equals the identifier, case-insensitively
SelectedBySerial(rows, id, dept) ==
    LET keep(r) ==
            /\ Lower(r.ITEM_SERIAL) = Lower(id)
            /\ dept \in {None, "", AllProductionAreas} \/ r.DEPARTMENT = dept
    IN  SelectSeq(rows, keep)

Usage(rows) == {<<rows[i].DEPARTMENT, rows[i].QUANTITY>> : i \in 1..Len(rows)}

\* C7: a digits-only identifier selects exactly the transactions whose
\* ITEM_SERIAL equals it; any other identifier selects on ITEM_NAME.
C7_SerialLookup ==
    Called("calculate_proportion") =>
        LET sel == IF IsDigits(identifier)
                   THEN SelectedBySerial(df.rows, identifier, department)
                   ELSE Selected(df.rows, identifier, department)
        IN  /\ result.isNone <=> (sel = <<>>)
            /\ ~result.isNone => Usage(result.rows) = Usage(GroupByDepartment(sel))

BelowMinimum(raw, min_prop) ==
    \A i \in 1..Len(raw) : RatLt(raw[i].PROPORTION, RatInt(min_prop))

\* C8: if every group's raw share is below min_proportion, the result is
\* exactly one group, one with the largest raw share, with PROPORTION 100.
C8_SingleGroupFallback ==
    LET raw == RawUsage
    IN  (Called("calculate_proportion") /\ Returned
            /\ BelowMinimum(raw, min_proportion)) =>
            /\ Len(result.rows) = 1
            /\ result.rows[1].PROPORTION = RatInt(100)
            /\ \A i \in 1..Len(raw) :
                  RatGe(ShareIn(raw, result.rows[1].DEPARTMENT), raw[i].PROPORTION)

\* the fallback taken among several departments, the largest not the first
C8_Witness ==
    /\ Called("calculate_proportion") /\ Returned
    /\ BelowMinimum(RawUsage, min_proportion)
    /\ Len(RawUsage) >= 2
    /\ result.rows[1].DEPARTMENT # RawUsage[1].DEPARTMENT

KeptShareSum(raw, min_prop) ==
    SumRat([i \in 1..Len(raw) |->
              IF RatGe(raw[i].PROPORTION, RatInt(min_prop))
              THEN raw[i].PROPORTION ELSE RatInt(0)])

\* C9: when some group's raw share reaches min_proportion, a group is in the
\* result (of calculate_proportion, hence of allocate_quantity) if and only
\* if its raw share is >= min_proportion, and the kept shares are the raw
\* shares divided by the sum of the kept raw shares.
C9_ThresholdInclusive ==
    LET raw == RawUsage
        kept == KeptShareSum(raw, min_proportion)
        in_result == DepartmentsOf(result.rows)
    IN  (Returned /\ ~BelowMinimum(raw, min_proportion)) =>
            /\ \A i \in 1..Len(raw) :
                  raw[i].DEPARTMENT \in in_result
                      <=> RatGe(raw[i].PROPORTION, RatInt(min_proportion))
            /\ in_result \subseteq DepartmentsOf(raw)
            /\ \A i \in 1..Len(result.rows) :
                  result.rows[i].PROPORTION =
                      RatMul(RatDiv(ShareIn(raw, result.rows[i].DEPARTMENT), kept),
                             RatInt(100))

\* an allocation with a group exactly at the threshold, kept, and a group
\* below it, dropped
C9_Witness ==
    LET raw == RawUsage
    IN  /\ Called("allocate_quantity") /\ Returned
        /\ \E i \in 1..Len(raw) :
              /\ raw[i].PROPORTION = RatInt(min_proportion)
              /\ raw[i].DEPARTMENT \in DepartmentsOf(result.rows)
        /\ \E i \in 1..Len(raw) : raw[i].DEPARTMENT \notin DepartmentsOf(result.rows)

\* C10: for the same table, identifier and department filter, a threshold
\* t2 >= t1 never yields more groups than t1.
C10_MonotoneFilter ==
    (Called("calculate_proportion") /\ Returned) =>
        \A t2 \in {t \in MinProportions : t >= min_proportion} :
            \A r2 \in calculate_proportion(df, identifier, department, t2) :
                Len(r2.rows) <= Len(result.rows)

\* a higher threshold that takes the fallback, a lower one that keeps several
C10_Witness ==
    /\ Called("calculate_proportion") /\ Returned
    /\ Len(result.rows) >= 2
    /\ \E t2 \in MinProportions :
          /\ t2 > min_proportion
          /\ BelowMinimum(RawUsage, t2)


\* the quantity of an item issued to a department
QuantityIn(rows, id, d) ==
    SumInt([i \in 1..Len(rows) |->
              IF Contains(Lower(rows[i].ITEM_NAME), Lower(id)) /\ rows[i].DEPARTMENT = d
              THEN rows[i].QUANTITY ELSE 0])

MatchingDepartments(rows, id) == {d \in Departments : QuantityIn(rows, id, d) > 0}

\* C11: with a department filter other than the sentinel, only the
\* transactions of that department are counted, and the result is None if
\* the item has none there; with no filter or the sentinel the transactions
\* of all departments are counted.
C11_DepartmentFilter ==
    Called("calculate_proportion") =>
        LET matching == MatchingDepartments(df.rows, identifier)
            counted == IF department \in {None, "", AllProductionAreas}
                       THEN matching
                       ELSE matching \cap {department}
        IN  /\ result.isNone <=> (counted = {})
            /\ ~result.isNone =>
                  Usage(result.rows) =
                      {<<d, QuantityIn(df.rows, identifier, d)>> : d \in counted}

\* a department asked for, while the item was issued to other departments too
C11_Witness ==
    /\ Called("calculate_proportion") /\ Returned
    /\ department \in Departments
    /\ Cardinality(MatchingDepartments(df.rows, identifier)) >= 2

\* the position of a department in the order of the group keys
KeyRank(d) == CHOOSE i \in 1..Len(DepartmentsSorted) : DepartmentsSorted[i] = d

\* equal shares come in the order of the group keys
TiesInKeyOrder(rows) ==
    \A i \in 1..Len(rows) : \A j \in (i + 1)..Len(rows) :
        rows[i].PROPORTION = rows[j].PROPORTION
            => KeyRank(rows[i].DEPARTMENT) < KeyRank(rows[j].DEPARTMENT)

\* C12: the rows returned by calculate_proportion are in non-increasing
\* order of PROPORTION, rows of equal PROPORTION in the order of their
\* department keys.
C12_DeterministicOrder ==
    (Called("calculate_proportion") /\ Returned) =>
        /\ \A i \in 1..Len(result.rows) : \A j \in (i + 1)..Len(result.rows) :
              RatGe(result.rows[i].PROPORTION, result.rows[j].PROPORTION)
        /\ TiesInKeyOrder(result.rows)


\* share / 100 * quantity of a row of the result, for a whole quantity
IdealOf(row) ==
    Rat(row.PROPORTION.n * available_quantity.n,
        row.PROPORTION.d * 100 * available_quantity.d)

FloorOf(row) == RatFloor(IdealOf(row))

RemainderOf(row) == RatSub(IdealOf(row), RatInt(FloorOf(row)))

\* the units a row received above the floor of its ideal
ExtraOf(row) == row.ALLOCATED_QUANTITY - FloorOf(row)

\* C13: for a non-negative integer available_quantity the allocation is a
\* largest-remainder apportionment: every group gets the floor of its ideal
\* or one more, exactly Q - sum(floor) groups get the extra unit, and no
\* group gets it while a group of strictly larger remainder does not.
C13_LargestRemainder ==
    (Called("allocate_quantity") /\ Returned /\ WholeQuantity) =>
        LET rows == result.rows
            n == Len(rows)
        IN  /\ \A i \in 1..n : ExtraOf(rows[i]) \in {0, 1}
            /\ Cardinality({i \in 1..n : ExtraOf(rows[i]) = 1}) =
                  available_quantity.n - SumInt([i \in 1..n |-> FloorOf(rows[i])])
            /\ \A i \in 1..n : \A j \in 1..n :
                  (RatLt(RemainderOf(rows[i]), RemainderOf(rows[j]))
                      /\ ExtraOf(rows[i]) = 1) => ExtraOf(rows[j]) = 1

\* rounding left units over, which went to some groups and not to others of
\* smaller remainder
C13_Witness ==
    /\ Called("allocate_quantity") /\ Returned /\ WholeQuantity
    /\ SumInt([i \in 1..Len(result.rows) |->
                 RatRound(IdealOf(result.rows[i]))]) < available_quantity.n
    /\ \E i \in 1..Len(result.rows) : \E j \in 1..Len(result.rows) :
          /\ ExtraOf(result.rows[i]) = 1
          /\ ExtraOf(result.rows[j]) = 0
          /\ RatLt(RemainderOf(result.rows[j]), RemainderOf(result.rows[i]))


\* C14: among groups of equal fractional remainder that cannot all receive
\* an extra unit, the group of larger share receives it first, and among
\* equal shares the group of smaller key.  Stated for the results whose
\* equal shares are in key order, so that it does not rest on the order the
\* sort leaves them in (C12).
C14_TieBreak ==
    (Called("allocate_quantity") /\ Returned /\ WholeQuantity
        /\ TiesInKeyOrder(result.rows)) =>
        \A i \in 1..Len(result.rows) : \A j \in 1..Len(result.rows) :
            (/\ RemainderOf(result.rows[i]) = RemainderOf(result.rows[j])
             /\ ExtraOf(result.rows[i]) = 1
             /\ ExtraOf(result.rows[j]) = 0) =>
                \/ RatGt(result.rows[i].PROPORTION, result.rows[j].PROPORTION)
                \/ /\ result.rows[i].PROPORTION = result.rows[j].PROPORTION
                   /\ KeyRank(result.rows[i].DEPARTMENT) < KeyRank(result.rows[j].DEPARTMENT)


\* the rounded allocation of a row of the result, before the adjustment
RoundedOf(row) == RatRound(IdealOf(row))

\* C15: for a non-negative integer available_quantity every
\* ALLOCATED_QUANTITY is >= 0, the adjustment changes exactly |difference|
\* groups by one unit each, in the direction of difference, and the
\* subtraction never takes a unit from a group whose rounded allocation is 0.
C15_NonNegative ==
    (Called("allocate_quantity") /\ Returned /\ WholeQuantity) =>
        LET rows == result.rows
            n == Len(rows)
            difference == available_quantity.n
                              - SumInt([i \in 1..n |-> RoundedOf(rows[i])])
            step == IF difference < 0 THEN -1 ELSE 1
            changed == {i \in 1..n : rows[i].ALLOCATED_QUANTITY # RoundedOf(rows[i])}
        IN  /\ \A i \in 1..n : rows[i].ALLOCATED_QUANTITY >= 0
            /\ Cardinality(changed) = Abs(difference)
            /\ \A i \in changed :
                  rows[i].ALLOCATED_QUANTITY = RoundedOf(rows[i]) + step
            /\ difference < 0 => \A i \in changed : RoundedOf(rows[i]) >= 1

\* units were taken back while a group had a rounded allocation of 0
C15_Witness ==
    /\ Called("allocate_quantity") /\ Returned /\ WholeQuantity
    /\ SumInt([i \in 1..Len(result.rows) |-> RoundedOf(result.rows[i])])
          > available_quantity.n
    /\ \E i \in 1..Len(result.rows) : RoundedOf(result.rows[i]) = 0


\* the quantity of an item issued to all departments
QuantityOverall(rows, id) ==
    SumInt([i \in 1..Len(DepartmentsSorted) |->
              QuantityIn(rows, id, DepartmentsSorted[i])])

\* C16: with a department filter other than the sentinel and transactions
\* of the item in that department, allocate_quantity returns exactly one
\* group, that department, with PROPORTION 100 and the whole integer
\* available_quantity, however small the department's share of the item.
C16_FilteredDepartmentTakesAll ==
    (/\ Called("allocate_quantity")
     /\ department \notin {None, "", AllProductionAreas}
     /\ QuantityIn(df.rows, identifier, department) > 0
     /\ available_quantity.d = 1) =>
        /\ ~result.isNone
        /\ Len(result.rows) = 1
        /\ result.rows[1].DEPARTMENT = department
        /\ result.rows[1].PROPORTION = RatInt(100)
        /\ result.rows[1].ALLOCATED_QUANTITY = available_quantity.n

\* the department asked for has less than 1% of the item's usage
C16_Witness ==
    /\ Called("allocate_quantity") /\ Returned
    /\ department \in Departments
    /\ available_quantity.d = 1 /\ available_quantity.n > 0
    /\ QuantityIn(df.rows, identifier, department) > 0
    /\ 100 * QuantityIn(df.rows, identifier, department)
          < QuantityOverall(df.rows, identifier)


\* C17: for an integer available_quantity the allocation is monotone in the
\* share: a group of strictly greater PROPORTION is allocated at least as
\* much, and groups of equal PROPORTION differ by at most one unit.
C17_MonotoneInShare ==
    (Called("allocate_quantity") /\ Returned /\ available_quantity.d = 1) =>
        \A i \in 1..Len(result.rows) : \A j \in 1..Len(result.rows) :
            /\ RatGt(result.rows[i].PROPORTION, result.rows[j].PROPORTION)
                  => result.rows[i].ALLOCATED_QUANTITY >= result.rows[j].ALLOCATED_QUANTITY
            /\ result.rows[i].PROPORTION = result.rows[j].PROPORTION
                  => Abs(result.rows[i].ALLOCATED_QUANTITY
                           - result.rows[j].ALLOCATED_QUANTITY) <= 1


TransactionColumns == {"ITEM_NAME", "ITEM_SERIAL", "DEPARTMENT", "QUANTITY"}

====
